---------------------------- MODULE Spec2Model ----------------------------
(***************************************************************************)
(* A model of LyricalClient (src/src/Client.ts): querySongLyrics,          *)
(* getLyrics, getLyricLines and the static parseSyncedLyrics.              *)
(*                                                                         *)
(* Strings are sequences of one-character strings.  Times (a record's      *)
(* duration, a target duration, a line's start and end) are integers in    *)
(* hundredths of a second, the precision of the [MM:SS.ff] grammar.        *)
(* JavaScript values that are not of one type are tagged records           *)
(* [tag, val].                                                             *)
(***************************************************************************)
EXTENDS Integers, Sequences, FiniteSets, TLC

VARIABLES op, pc, options, searched, response, lyrics, result

vars == <<op, pc, options, searched, response, lyrics, result>>

(***************************************************************************)
(* Bounds of the model.                                                    *)
(***************************************************************************)
\* the longest candidate list the provider returns
MaxCands == 3
\* record durations and finite target durations range over 0 .. MaxDur
MaxDur == 1
\* the most physical lines of a synced-lyrics text handed to the parser
MaxLines == 3

(***************************************************************************)
(* JavaScript values.                                                      *)
(***************************************************************************)
Null == [tag |-> "null", val |-> <<>>]
Str(s) == [tag |-> "string", val |-> s]

\* a value of the duration option: absent, a finite number, NaN, an
\* infinity, or a value that is not a number (null, "", a non-empty string)
Undefined == [tag |-> "undefined", val |-> 0]
Num(n) == [tag |-> "number", val |-> n]
NaN == [tag |-> "NaN", val |-> 0]
PosInfinity == [tag |-> "Infinity", val |-> 0]
NegInfinity == [tag |-> "-Infinity", val |-> 0]
NullValue == [tag |-> "null", val |-> 0]
EmptyString == [tag |-> "emptyString", val |-> 0]
NonEmptyString == [tag |-> "string", val |-> 0]

\* ToBoolean, as `if (duration)` and `duration && ...` apply it
Truthy(v) ==
  CASE v.tag = "number" -> v.val # 0
    [] v.tag \in {"Infinity", "-Infinity", "string"} -> TRUE
    [] OTHER -> FALSE

\* the typeof operator
TypeOf(v) ==
  CASE v.tag \in {"number", "NaN", "Infinity", "-Infinity"} -> "number"
    [] v.tag \in {"emptyString", "string"} -> "string"
    [] v.tag = "null" -> "object"
    [] OTHER -> "undefined"

\* `const { syncedOnly = dflt } = options || {}`: the default applies to an
\* absent (undefined) property only
WithDefault(v, dflt) == IF v = "undefined" THEN dflt ELSE (v = "true")

(***************************************************************************)
(* Characters and the synced-lyrics texts of the model.                    *)
(***************************************************************************)
LF == "\n"
CR == "\r"
Digits == {"0", "1", "2", "3", "4", "5", "6", "7", "8", "9"}
\* what String.prototype.trim strips (the members the model's texts use)
WhiteSpace == {" ", "\t", LF, CR}
\* what `.` of a regular expression without the s flag does not match
LineTerminators == {LF, CR}

Stamp(m1, m2, s1, s2, f1, f2) == <<"[", m1, m2, ":", s1, s2, ".", f1, f2, "]">>

\* the physical lines the model's texts are made of
LineShapes ==
  { Stamp("0", "0", "0", "0", "0", "1") \o <<"H", "i">>,
    Stamp("0", "0", "0", "0", "0", "3") \o <<" ", "Y", "o">>,
    Stamp("0", "0", "0", "0", "0", "2") \o <<" ", " ">>,
    Stamp("0", "0", "0", "0", "0", "2"),
    Stamp("0", "0", "0", "0", "0", "2") \o <<"a", CR>>,
    Stamp("0", "1", "6", "1", "3", "0") \o <<"z">>,
    <<>>,
    <<" ">>,
    <<"[", "0", ":", "0", "1", ".", "0", "0", "]", "x">>,
    <<"[", "0", "0", ":", "0", "1", ".", "5", "]", "x">>,
    <<" ">> \o Stamp("0", "0", "0", "0", "0", "1") \o <<"x">>,
    <<"#", "c">> }

RECURSIVE JoinLF(_)
\* the lines of ls, separated by line feeds
JoinLF(ls) ==
  IF Len(ls) = 0 THEN <<>>
  ELSE IF Len(ls) = 1 THEN ls[1]
  ELSE ls[1] \o <<LF>> \o JoinLF(Tail(ls))

SeqsUpTo(S, n) == UNION {[1..k -> S] : k \in 0..n}

\* the texts the parser is given: up to MaxLines physical lines
Texts == {JoinLF(ls) : ls \in SeqsUpTo(LineShapes, MaxLines)}

SampleText ==
  JoinLF(<<Stamp("0", "0", "0", "0", "0", "1") \o <<"H", "i">>,
           Stamp("0", "0", "0", "0", "0", "3") \o <<" ", "Y", "o">>>>)

Durations == 0..MaxDur

\* LyricSearchResult: the fields the client reads.  id is the record's
\* position in the provider's list, so that equal contents stay distinct
\* objects.
NoRecord == [id |-> 0, duration |-> 0, syncedLyrics |-> Null]

\* a record handed to parseSyncedLyrics directly
ParseInputs ==
  {[id |-> 1, duration |-> d, syncedLyrics |-> s] :
     d \in Durations, s \in {Null} \cup {Str(t) : t \in Texts}}

\* the synced-lyrics values of the records a search returns
SyncedChoices == {Null, Str(<<>>), Str(SampleText)}

\* the candidate lists a search returns
CandidateLists ==
  UNION { {[i \in 1..k |-> [id |-> i, duration |-> ds[i], syncedLyrics |-> ss[i]]] :
             ds \in [1..k -> Durations], ss \in [1..k -> SyncedChoices]} :
          k \in 0..MaxCands }

\* what the fetch of the search comes back with
Responses ==
  {[kind |-> "notOk", data |-> <<>>], [kind |-> "null", data |-> <<>>]}
    \cup {[kind |-> "list", data |-> d] : d \in CandidateLists}
NoResponse == [kind |-> "none", data |-> <<>>]

DurationValues ==
  {Undefined, NaN, PosInfinity, NegInfinity, NullValue, EmptyString, NonEmptyString}
    \cup {Num(n) : n \in (-1)..MaxDur}
SyncedOnlyValues == {"undefined", "true", "false"}
NoOptions == [duration |-> Undefined, syncedOnly |-> "undefined"]

(***************************************************************************)
(* How a call ends.                                                        *)
(***************************************************************************)
Pending == [kind |-> "pending", err |-> "", rec |-> NoRecord, recs |-> <<>>, lines |-> <<>>]
Throw(e) == [Pending EXCEPT !.kind = "error", !.err = e]
ReturnRecord(r) == [Pending EXCEPT !.kind = "record", !.rec = r]
ReturnList(l) == [Pending EXCEPT !.kind = "list", !.recs = l]
ReturnLines(l) == [Pending EXCEPT !.kind = "lines", !.lines = l]


(***************************************************************************)
(* querySongLyrics and getLyrics.                                          *)
(***************************************************************************)
\* the filter's test: item.syncedLyrics && item.syncedLyrics.length > 0
HasSyncedLyrics(item) ==
  item.syncedLyrics.tag = "string" /\ Len(item.syncedLyrics.val) > 0

\* data.filter(...): the records that pass, in the order of data
FilterSynced(data) == SelectSeq(data, HasSyncedLyrics)

\* querySongLyrics once the fetch has come back
QuerySongLyricsRest(resp, syncedOnly) ==
  IF resp.kind = "notOk" THEN Throw("FetchFailed")
  ELSE IF resp.kind = "null" \/ Len(resp.data) = 0 THEN Throw("NotFound")
  ELSE IF syncedOnly THEN ReturnList(FilterSynced(resp.data))
  ELSE ReturnList(resp.data)

\* the argument check at the head of getLyrics
DurationRejected(duration) == Truthy(duration) /\ TypeOf(duration) # "number"

\* Math.abs(recordDuration - duration), a number, Infinity or NaN
AbsDiff(recordDuration, duration) ==
  CASE duration.tag = "number" ->
         [kind |-> "finite",
          val |-> IF recordDuration >= duration.val
                  THEN recordDuration - duration.val
                  ELSE duration.val - recordDuration]
    [] duration.tag \in {"Infinity", "-Infinity"} -> [kind |-> "Infinity", val |-> 0]
    [] OTHER -> [kind |-> "NaN", val |-> 0]

\* a < b on such values
NumLess(a, b) ==
  /\ a.kind = "finite"
  /\ \/ b.kind = "Infinity"
     \/ b.kind = "finite" /\ a.val < b.val

\* the reducer: currDiff < prevDiff ? curr : prev
CloserOf(prev, curr, duration) ==
  IF NumLess(AbsDiff(curr.duration, duration), AbsDiff(prev.duration, duration))
  THEN curr ELSE prev

RECURSIVE ReduceFrom(_, _, _, _)
\* data.reduce without an initial value, from index i with accumulator prev
ReduceFrom(data, i, prev, duration) ==
  IF i > Len(data) THEN prev
  ELSE ReduceFrom(data, i + 1, CloserOf(prev, data[i], duration), duration)

\* SelectLyric taking the last record, not the first, without a duration
SelectLyricLast(data, duration) ==
  IF Truthy(duration)
  THEN IF Len(data) = 0 THEN Throw("TypeError")
       ELSE ReturnRecord(ReduceFrom(data, 2, data[1], duration))
  ELSE IF Len(data) > 0 THEN ReturnRecord(data[Len(data)])
  ELSE Throw("NotFound")

\* the selection among the filtered records
SelectLyric(data, duration) ==
  IF Truthy(duration)
  THEN IF Len(data) = 0 THEN Throw("TypeError")
       ELSE ReturnRecord(ReduceFrom(data, 2, data[1], duration))
  ELSE IF Len(data) > 0 THEN ReturnRecord(data[1])
  ELSE Throw("NotFound")

\* Eligible with the filter left out
EligibleUnfiltered(data, syncedOnly) == data

\* the records getLyrics selects among
Eligible(data, syncedOnly) == IF syncedOnly THEN FilterSynced(data) ELSE data

\* getLyrics once its querySongLyrics(song, artist) call has come back
GetLyricsRest(resp, duration, syncedOnly) ==
  LET q == QuerySongLyricsRest(resp, FALSE) IN
  IF q.kind = "error" THEN q
  ELSE IF Len(q.recs) = 0 THEN Throw("NotFound")
  ELSE SelectLyric(Eligible(q.recs, syncedOnly), duration)

(***************************************************************************)
(* parseSyncedLyrics.                                                      *)
(***************************************************************************)
RECURSIVE SplitFrom(_, _, _)
\* text.split("\n") from index i, cur being the piece under construction
SplitFrom(text, i, cur) ==
  IF i > Len(text) THEN <<cur>>
  ELSE IF text[i] = LF THEN <<cur>> \o SplitFrom(text, i + 1, <<>>)
  ELSE SplitFrom(text, i + 1, Append(cur, text[i]))

\* text.split("\n"): the empty text gives one empty piece
SplitLF(text) == SplitFrom(text, 1, <<>>)

RECURSIVE TrimStart(_)
TrimStart(s) ==
  IF Len(s) > 0 /\ s[1] \in WhiteSpace THEN TrimStart(Tail(s)) ELSE s

RECURSIVE TrimEnd(_)
TrimEnd(s) ==
  IF Len(s) > 0 /\ s[Len(s)] \in WhiteSpace
  THEN TrimEnd(SubSeq(s, 1, Len(s) - 1)) ELSE s

\* String.prototype.trim
Trim(s) == TrimEnd(TrimStart(s))

\* line.match(/^\[(\d{2}):(\d{2}\.\d{2})\](.*)$/) finds a match: the
\* bracketed stamp, then characters `.` matches up to the end of the line
Matches(line) ==
  /\ Len(line) >= 10
  /\ line[1] = "["
  /\ line[2] \in Digits /\ line[3] \in Digits
  /\ line[4] = ":"
  /\ line[5] \in Digits /\ line[6] \in Digits
  /\ line[7] = "."
  /\ line[8] \in Digits /\ line[9] \in Digits
  /\ line[10] = "]"
  /\ \A k \in 11..Len(line) : line[k] \notin LineTerminators

DigitValue(c) ==
  CASE c = "0" -> 0 [] c = "1" -> 1 [] c = "2" -> 2 [] c = "3" -> 3
    [] c = "4" -> 4 [] c = "5" -> 5 [] c = "6" -> 6 [] c = "7" -> 7
    [] c = "8" -> 8 [] c = "9" -> 9

\* the value of a two-digit group
TwoDigits(line, k) == 10 * DigitValue(line[k]) + DigitValue(line[k + 1])

\* StartOf with the seconds taken modulo 60
StartOfSecondsWrapped(line) ==
  (TwoDigits(line, 2) * 60 + (TwoDigits(line, 5) % 60)) * 100 + TwoDigits(line, 8)

\* Number(match[1]) * 60 + parseFloat(match[2]), in hundredths of a second
StartOf(line) ==
  (TwoDigits(line, 2) * 60 + TwoDigits(line, 5)) * 100 + TwoDigits(line, 8)

\* the glyph that stands for a line without text
Placeholder == <<"NOTE">>

\* text.replace(/\n/g, " ")
ReplaceLF(s) == [k \in 1..Len(s) |-> IF s[k] = LF THEN " " ELSE s[k]]

\* TextOf without the placeholder
TextOfTrimmedOnly(line) ==
  LET text == Trim(SubSeq(line, 11, Len(line))) IN ReplaceLF(text)

\* the text of a matching line: match[3] trimmed, the placeholder when that
\* is empty
TextOf(line) ==
  LET text == Trim(SubSeq(line, 11, Len(line))) IN
  IF Len(text) = 0 THEN Placeholder ELSE ReplaceLF(text)

RECURSIVE StartingLinesFrom(_, _, _)
\* the first loop, from index i of lyricalArray, acc being startingLines
StartingLinesFrom(lyricalArray, i, acc) ==
  IF i > Len(lyricalArray) THEN acc
  ELSE LET line == lyricalArray[i] IN
       IF Len(Trim(line)) = 0 \/ ~Matches(line)
       THEN StartingLinesFrom(lyricalArray, i + 1, acc)
       ELSE StartingLinesFrom(lyricalArray, i + 1,
              Append(acc, [line |-> TextOf(line), start |-> StartOf(line)]))

\* StartingLines with each line put in front (unshift for push)
StartingLinesUnshift(lyricalArray) ==
  LET pushed == StartingLinesFrom(lyricalArray, 1, <<>>) IN
  [i \in 1..Len(pushed) |-> pushed[Len(pushed) + 1 - i]]

\* startingLines after the first loop
StartingLines(lyricalArray) == StartingLinesFrom(lyricalArray, 1, <<>>)

\* EndOf looking for the next line one index too far
EndOfOffByOne(startingLines, i, duration) ==
  IF i + 2 <= Len(startingLines) THEN startingLines[i + 1].start ELSE duration

\* the end of line i: the next line's start, the duration after the last
EndOf(startingLines, i, duration) ==
  IF i + 1 <= Len(startingLines) THEN startingLines[i + 1].start ELSE duration

\* lyricalLines after the second loop
LyricalLines(startingLines, duration) ==
  [i \in 1..Len(startingLines) |->
     [start |-> startingLines[i].start,
      end |-> EndOf(startingLines, i, duration),
      text |-> startingLines[i].line]]

\* NoSyncedLyrics without the length test
NoSyncedLyricsAbsentOnly(rec) == rec.syncedLyrics.tag # "string"

\* the guard !lyrics.syncedLyrics || !lyrics.syncedLyrics.length
NoSyncedLyrics(rec) ==
  rec.syncedLyrics.tag # "string" \/ Len(rec.syncedLyrics.val) = 0

ParseSyncedLyrics(rec) ==
  IF NoSyncedLyrics(rec) THEN Throw("NoSyncedLyrics")
  ELSE ReturnLines(LyricalLines(StartingLines(SplitLF(rec.syncedLyrics.val)),
                                rec.duration))

\* getLyricLines once its getLyrics call has come back
GetLyricLinesRest(resp, duration) ==
  LET r == GetLyricsRest(resp, duration, TRUE) IN
  IF r.kind = "error" THEN r ELSE ParseSyncedLyrics(r.rec)

(***************************************************************************)
(* The calls.  A call runs to its first await (the fetch of the search)    *)
(* in one step and from the fetch's answer to its end in another.          *)
(***************************************************************************)
Init ==
  /\ op = "none"
  /\ pc = "idle"
  /\ options = NoOptions
  /\ searched = FALSE
  /\ response = NoResponse
  /\ lyrics = NoRecord
  /\ result = Pending

\* querySongLyrics(song, artist, {syncedOnly}) up to its fetch
QuerySongLyricsCall ==
  /\ pc = "idle"
  /\ \E so \in SyncedOnlyValues :
       options' = [duration |-> Undefined, syncedOnly |-> so]
  /\ op' = "querySongLyrics"
  /\ pc' = "awaitFetch"
  /\ searched' = TRUE
  /\ UNCHANGED <<response, lyrics, result>>

\* the fetch answers and querySongLyrics runs to its end
QuerySongLyricsResume ==
  /\ pc = "awaitFetch" /\ op = "querySongLyrics"
  /\ \E resp \in Responses :
       /\ response' = resp
       /\ result' = QuerySongLyricsRest(resp, WithDefault(options.syncedOnly, FALSE))
  /\ pc' = "done"
  /\ UNCHANGED <<op, options, searched, lyrics>>

\* getLyrics(song, artist, {duration, syncedOnly}) up to the fetch of its
\* querySongLyrics call, or to the rejection of its duration
GetLyricsCall ==
  /\ pc = "idle"
  /\ \E d \in DurationValues, so \in SyncedOnlyValues :
       /\ options' = [duration |-> d, syncedOnly |-> so]
       /\ IF DurationRejected(d)
          THEN /\ result' = Throw("InvalidArgument")
               /\ pc' = "done"
               /\ searched' = FALSE
          ELSE /\ result' = Pending
               /\ pc' = "awaitFetch"
               /\ searched' = TRUE
  /\ op' = "getLyrics"
  /\ UNCHANGED <<response, lyrics>>

\* the fetch answers and getLyrics runs to its end
GetLyricsResume ==
  /\ pc = "awaitFetch" /\ op = "getLyrics"
  /\ \E resp \in Responses :
       /\ response' = resp
       /\ result' = GetLyricsRest(resp, options.duration,
                                  WithDefault(options.syncedOnly, FALSE))
  /\ pc' = "done"
  /\ UNCHANGED <<op, options, searched, lyrics>>

\* getLyricLines(song, artist, {duration, syncedOnly}) up to the fetch, or
\* to the rejection of its duration by getLyrics
GetLyricLinesCall ==
  /\ pc = "idle"
  /\ \E d \in DurationValues, so \in SyncedOnlyValues :
       /\ options' = [duration |-> d, syncedOnly |-> so]
       /\ IF DurationRejected(d)
          THEN /\ result' = Throw("InvalidArgument")
               /\ pc' = "done"
               /\ searched' = FALSE
          ELSE /\ result' = Pending
               /\ pc' = "awaitFetch"
               /\ searched' = TRUE
  /\ op' = "getLyricLines"
  /\ UNCHANGED <<response, lyrics>>

\* the fetch answers and getLyricLines runs to its end
GetLyricLinesResume ==
  /\ pc = "awaitFetch" /\ op = "getLyricLines"
  /\ \E resp \in Responses :
       /\ response' = resp
       /\ result' = GetLyricLinesRest(resp, options.duration)
       /\ lyrics' = LET r == GetLyricsRest(resp, options.duration, TRUE) IN
                    IF r.kind = "record" THEN r.rec ELSE lyrics
  /\ pc' = "done"
  /\ UNCHANGED <<op, options, searched>>

\* LyricalClient.parseSyncedLyrics(lyrics), a synchronous call
ParseSyncedLyricsCall ==
  /\ pc = "idle"
  /\ \E rec \in ParseInputs :
       /\ lyrics' = rec
       /\ result' = ParseSyncedLyrics(rec)
  /\ op' = "parseSyncedLyrics"
  /\ pc' = "done"
  /\ UNCHANGED <<options, searched, response>>

\* the units digits of the stamps of StampedInputs
UnitDigits == {"0", "4", "9"}

\* records of one stamped line, for the arithmetic of the start time: every
\* tens digit and three units digits in each of MM, SS and ff
StampedInputs ==
  {[id |-> 1, duration |-> 0,
    syncedLyrics |-> Str(Stamp(m1, m2, s1, s2, f1, f2) \o <<"x">>)] :
     m1 \in Digits, m2 \in UnitDigits, s1 \in Digits, s2 \in UnitDigits,
     f1 \in Digits, f2 \in UnitDigits}

\* LyricalClient.parseSyncedLyrics(lyrics) on a record of StampedInputs
ParseStampedLineCall ==
  /\ pc = "idle"
  /\ \E rec \in StampedInputs :
       /\ lyrics' = rec
       /\ result' = ParseSyncedLyrics(rec)
  /\ op' = "parseSyncedLyrics"
  /\ pc' = "done"
  /\ UNCHANGED <<options, searched, response>>

\* the parser alone, over StampedInputs
SpecStamps == Init /\ [][ParseStampedLineCall]_vars

Next ==
  \/ QuerySongLyricsCall
  \/ QuerySongLyricsResume
  \/ GetLyricsCall
  \/ GetLyricsResume
  \/ GetLyricLinesCall
  \/ GetLyricLinesResume
  \/ ParseSyncedLyricsCall

Spec == Init /\ [][Next]_vars

(***************************************************************************)
(* Vocabulary of the properties.                                           *)
(***************************************************************************)
Finished(o) == op = o /\ pc = "done"

\* the provider answered with a candidate list
GotList == response.kind = "list"

\* the syncedOnly option in force for getLyrics
SyncedOnlyAsked == options.syncedOnly = "true"

\* a record whose synced-lyrics text is present and non-empty
IsSynced(r) == r.syncedLyrics.tag = "string" /\ r.syncedLyrics.val # <<>>

\* the candidate list left after the syncedOnly filter
Filtered ==
  IF SyncedOnlyAsked THEN SelectSeq(response.data, IsSynced) ELSE response.data

\* |recordDuration - target| for a finite target
Distance(recordDuration, target) ==
  IF recordDuration >= target THEN recordDuration - target
  ELSE target - recordDuration

\* the positions of Filtered whose distance to the finite target is least
Nearest(target) ==
  {k \in DOMAIN Filtered :
     \A j \in DOMAIN Filtered :
       Distance(Filtered[k].duration, target) <= Distance(Filtered[j].duration, target)}

LeastOf(S) == CHOOSE k \in S : \A j \in S : k <= j

\* C1 (as claimed): for every finite target duration, zero and negative
\* ones included, and a non-empty filtered list, getLyrics returns a record
\* whose distance to the target is least among the filtered records.
C1_ClosestForEveryFiniteTarget ==
  (Finished("getLyrics") /\ GotList /\ options.duration.tag = "number"
     /\ Len(Filtered) > 0)
    => /\ result.kind = "record"
       /\ \A k \in DOMAIN Filtered :
            Distance(result.rec.duration, options.duration.val)
              <= Distance(Filtered[k].duration, options.duration.val)

\* C2 (as claimed): when the filtered candidate list is empty, getLyrics
\* fails with NotFound, with and without a target duration.
C2_EmptyFilteredIsNotFound ==
  (Finished("getLyrics") /\ GotList /\ Len(Filtered) = 0)
    => result.kind = "error" /\ result.err = "NotFound"

\* a duration that is provided and is not a finite number
NotFiniteNumber(d) == d.tag \notin {"undefined", "number"}

\* C3 (as claimed): a provided duration that is not a finite number makes
\* getLyrics fail with InvalidArgument before the search is invoked.
C3_NonFiniteDurationRejected ==
  (op = "getLyrics" /\ NotFiniteNumber(options.duration))
    => /\ pc = "done"
       /\ result.kind = "error" /\ result.err = "InvalidArgument"
       /\ ~searched
       /\ response = NoResponse

\* C4 (as claimed): with a target duration and several filtered records at
\* the same least distance, getLyrics returns the one of them of lowest index.
C4_TieGoesToLowestIndex ==
  (Finished("getLyrics") /\ GotList /\ options.duration.tag = "number"
     /\ Cardinality(Nearest(options.duration.val)) >= 2)
    => /\ result.kind = "record"
       /\ result.rec = Filtered[LeastOf(Nearest(options.duration.val))]

\* C5: every record getLyrics returns is one of the provider's candidates
\* that the syncedOnly filter lets through: with syncedOnly=true its
\* synced-lyrics text is non-empty.
C5_ReturnsFilteredCandidate ==
  (Finished("getLyrics") /\ result.kind = "record")
    => /\ GotList
       /\ \E k \in DOMAIN response.data : response.data[k] = result.rec
       /\ \E k \in DOMAIN Filtered : Filtered[k] = result.rec
       /\ SyncedOnlyAsked => IsSynced(result.rec)

\* C5's case: syncedOnly=true, a target duration, and the record returned
\* lies behind a candidate without synced lyrics that is at least as close.
C5_Witness ==
  /\ Finished("getLyrics") /\ result.kind = "record"
  /\ SyncedOnlyAsked /\ options.duration = Num(1)
  /\ Len(response.data) >= 2
  /\ ~IsSynced(response.data[1]) /\ response.data[1].duration = 1
  /\ result.rec.id = 2

\* C6: without a target duration and with a non-empty filtered list,
\* getLyrics returns the first record of the filtered list.
C6_FirstWithoutTarget ==
  (Finished("getLyrics") /\ GotList /\ options.duration = Undefined
     /\ Len(Filtered) > 0)
    => result.kind = "record" /\ result.rec = Filtered[1]

\* C6's case: no target, and the first filtered record is not the
\* provider's first.
C6_Witness ==
  /\ Finished("getLyrics") /\ GotList /\ options.duration = Undefined
  /\ SyncedOnlyAsked /\ Len(Filtered) >= 2
  /\ result.kind = "record" /\ result.rec.id = 2

\* the record handed to parseSyncedLyrics has a synced-lyrics text
HasText == lyrics.syncedLyrics.tag = "string"

\* the physical lines of that text that the parser's expression matches
MatchingLines == SelectSeq(SplitLF(lyrics.syncedLyrics.val), Matches)

NonDecreasing(f) == \A i \in 1..(Len(f) - 1) : f[i] <= f[i + 1]

\* C7: in every sequence parseSyncedLyrics returns, each line but the last
\* ends where the next starts and the last ends at the record's duration; a
\* text with exactly one matching line gives exactly one line, ending at
\* the duration.
C7_EndsChainToDuration ==
  (result.kind = "lines" /\ op \in {"parseSyncedLyrics", "getLyricLines"})
    => LET ls == result.lines IN
       /\ \A i \in 1..(Len(ls) - 1) : ls[i].end = ls[i + 1].start
       /\ Len(ls) > 0 => ls[Len(ls)].end = lyrics.duration
       /\ Len(MatchingLines) = 1 => Len(ls) = 1 /\ ls[1].end = lyrics.duration

\* C7's case: several lines, the last of which ends before it starts.
C7_Witness ==
  /\ Finished("parseSyncedLyrics") /\ result.kind = "lines"
  /\ Len(result.lines) >= 2
  /\ result.lines[1].end = result.lines[2].start
  /\ result.lines[Len(result.lines)].end < result.lines[Len(result.lines)].start

\* C8 (as claimed): every sequence parseSyncedLyrics returns has
\* non-decreasing start values.
C8_StartsNonDecreasing ==
  (result.kind = "lines" /\ op = "parseSyncedLyrics")
    => NonDecreasing([i \in 1..Len(result.lines) |-> result.lines[i].start])

\* C8 (amended): for a text whose matching lines carry non-decreasing
\* timestamps in their order of appearance, the sequence parseSyncedLyrics
\* returns has non-decreasing start values.
C8_StartsNonDecreasingForOrderedText ==
  (result.kind = "lines" /\ op = "parseSyncedLyrics"
     /\ NonDecreasing([i \in 1..Len(MatchingLines) |-> StartOf(MatchingLines[i])]))
    => NonDecreasing([i \in 1..Len(result.lines) |-> result.lines[i].start])

\* C8's case: a text with three matching lines in time order, one of them
\* repeating a timestamp.
C8_Witness ==
  /\ Finished("parseSyncedLyrics") /\ result.kind = "lines"
  /\ Len(MatchingLines) = 3 /\ Len(result.lines) = 3
  /\ result.lines[1].start < result.lines[2].start
  /\ result.lines[2].start = result.lines[3].start

HasStampForm(line) ==
  /\ Len(line) >= 10
  /\ line[1] = "[" /\ line[4] = ":" /\ line[7] = "." /\ line[10] = "]"
  /\ \A k \in {2, 3, 5, 6, 8, 9} : line[k] \in Digits

\* the physical lines of the text that have this form
StampedLines == SelectSeq(SplitLF(lyrics.syncedLyrics.val), HasStampForm)

\* C10 (as claimed): for a non-empty text parseSyncedLyrics returns, without
\* error, one line for each physical line of the form [MM:SS.ff]<rest>, in
\* order of appearance, and nothing for any other line.
C10_OneLinePerStampedLine ==
  (Finished("parseSyncedLyrics") /\ HasText /\ lyrics.syncedLyrics.val # <<>>)
    => /\ result.kind = "lines"
       /\ Len(result.lines) = Len(StampedLines)
       /\ \A i \in 1..Len(result.lines) :
            i <= Len(StampedLines) => result.lines[i].start = StartOf(StampedLines[i])

\* what follows the ten characters of the stamp
RestOf(line) == SubSeq(line, 11, Len(line))

\* t is s without its leading and trailing whitespace
IsTrimOf(t, s) ==
  /\ Len(t) > 0 => t[1] \notin WhiteSpace /\ t[Len(t)] \notin WhiteSpace
  /\ \E a \in 0..Len(s) :
       /\ a + Len(t) <= Len(s)
       /\ \A k \in 1..a : s[k] \in WhiteSpace
       /\ \A k \in 1..Len(t) : s[a + k] = t[k]
       /\ \A k \in (a + Len(t) + 1)..Len(s) : s[k] \in WhiteSpace

\* C11: every line parseSyncedLyrics emits has a non-empty text: the rest
\* of its physical line after the stamp, trimmed, or the placeholder when
\* the trimmed rest is empty.
C11_TextTrimmedOrPlaceholder ==
  (result.kind = "lines" /\ op \in {"parseSyncedLyrics", "getLyricLines"})
    => LET matching == MatchingLines IN
       /\ Len(result.lines) = Len(matching)
       /\ \A i \in 1..Len(result.lines) :
            /\ result.lines[i].text # <<>>
            /\ IF IsTrimOf(<<>>, RestOf(matching[i]))
               THEN result.lines[i].text = Placeholder
               ELSE IsTrimOf(result.lines[i].text, RestOf(matching[i]))

\* C11's case: a stamp followed by whitespace only gives the placeholder,
\* beside a line whose text lost its leading blank.
C11_Witness ==
  /\ Finished("parseSyncedLyrics") /\ result.kind = "lines"
  /\ Len(result.lines) = 2
  /\ RestOf(MatchingLines[1]) = <<" ", " ">>
  /\ result.lines[1].text = Placeholder
  /\ RestOf(MatchingLines[2]) = <<" ", "Y", "o">>
  /\ result.lines[2].text = <<"Y", "o">>

\* the number a decimal digit stands for
DecimalOf(c) ==
  CHOOSE n \in 0..9 : <<"0", "1", "2", "3", "4", "5", "6", "7", "8", "9">>[n + 1] = c

\* the minutes, seconds and hundredths written in a stamped line
MinutesOf(line) == 10 * DecimalOf(line[2]) + DecimalOf(line[3])
SecondsOf(line) == 10 * DecimalOf(line[5]) + DecimalOf(line[6])
HundredthsOf(line) == 10 * DecimalOf(line[8]) + DecimalOf(line[9])

\* C12: the start of every emitted line is MM*60 + SS.ff seconds, in
\* hundredths 6000*MM + 100*SS + ff, for all two-digit MM, SS and ff, SS of
\* 60 and more included: nothing is range-checked or normalised.
C12_StartIsMinutesSecondsHundredths ==
  (result.kind = "lines" /\ op \in {"parseSyncedLyrics", "getLyricLines"})
    => LET matching == MatchingLines IN
       /\ Len(result.lines) = Len(matching)
       /\ \A i \in 1..Len(result.lines) :
            result.lines[i].start =
              6000 * MinutesOf(matching[i]) + 100 * SecondsOf(matching[i])
                + HundredthsOf(matching[i])

\* C12's case: a stamp with 99 minutes and 89 seconds, 89 seconds counted
\* as such.
C12_Witness ==
  /\ Finished("parseSyncedLyrics") /\ result.kind = "lines"
  /\ Len(result.lines) = 1
  /\ SubSeq(lyrics.syncedLyrics.val, 1, 10) = Stamp("9", "9", "8", "9", "0", "4")
  /\ result.lines[1].start = 602904

\* the provider's candidates that have synced lyrics, in its order
SyncedCandidates == SelectSeq(response.data, IsSynced)

\* C13 (as claimed): querySongLyrics with syncedOnly=true, the provider
\* having returned at least one candidate, fails with NotFound when the
\* filter eliminates them all and otherwise returns exactly the candidates
\* with synced lyrics, in the provider's order.
C13_QueryFilteredEmptyIsNotFound ==
  (Finished("querySongLyrics") /\ SyncedOnlyAsked /\ GotList
     /\ Len(response.data) > 0)
    => IF Len(SyncedCandidates) = 0
       THEN result.kind = "error" /\ result.err = "NotFound"
       ELSE result.kind = "list" /\ result.recs = SyncedCandidates

\* C14 (as claimed): whatever syncedOnly the caller passes, getLyricLines
\* hands parseSyncedLyrics a candidate with synced lyrics, never fails with
\* NoSyncedLyrics, and fails with NotFound when no candidate has synced
\* lyrics.
C14_LinesAlwaysFromSynced ==
  Finished("getLyricLines")
    => /\ ~(result.kind = "error" /\ result.err = "NoSyncedLyrics")
       /\ result.kind = "lines"
            => /\ IsSynced(lyrics)
               /\ \E k \in DOMAIN response.data : response.data[k] = lyrics
       /\ (GotList /\ Len(SyncedCandidates) = 0)
            => result.kind = "error" /\ result.err = "NotFound"

=============================================================================
